---- MODULE Spec2Model ----
(***************************************************************************)
(* CTU dataset metadata harvester (lim/ctu13.py, class CTU_Dataset).       *)
(*                                                                         *)
(* A Python str is a sequence of tokens; the characters the code tests for *)
(* (":", " ", "/", ".", "?") are tokens of their own, so that split,       *)
(* strip, startswith, endswith and `in` work on the sequence as the code   *)
(* works on the characters.                                                *)
(***************************************************************************)
EXTENDS Integers, Sequences, FiniteSets, TLC

(* ------------------------------------------------------------------ *)
(* Bounds of the model                                                 *)
(* ------------------------------------------------------------------ *)
\* semaphore_limit is drawn from 1..MaxLimit
MaxLimit == 2
\* at most MaxFailures fetches of a session end in a transport failure
MaxFailures == 1
\* seconds that may pass between two readings of the clock
MaxTick == 1

(* ------------------------------------------------------------------ *)
(* str operations                                                      *)
(* ------------------------------------------------------------------ *)
\* needle in s
IsSubstr(needle, s) ==
    \E i \in 0..(Len(s) - Len(needle)) :
        SubSeq(s, i + 1, i + Len(needle)) = needle

\* s.startswith(p)
StartsWith(s, p) == Len(p) <= Len(s) /\ SubSeq(s, 1, Len(p)) = p

\* s.endswith(p)
EndsWith(s, p) ==
    Len(p) <= Len(s) /\ SubSeq(s, Len(s) - Len(p) + 1, Len(s)) = p

\* the index of the first token equal to c at or after i, 0 when there is none
RECURSIVE FindFrom(_, _, _)
FindFrom(s, c, i) ==
    IF i > Len(s) THEN 0
    ELSE IF s[i] = c THEN i
    ELSE FindFrom(s, c, i + 1)

\* the index of the last token equal to c, 0 when there is none (rfind + 1)
RECURSIVE RFind(_, _, _)
RFind(s, c, i) ==
    IF i < 1 THEN 0
    ELSE IF s[i] = c THEN i
    ELSE RFind(s, c, i - 1)

\* s.split(sep): the pieces between the separators, empty pieces kept
RECURSIVE Split(_, _)
Split(s, sep) ==
    LET i == FindFrom(s, sep, 1) IN
    IF i = 0 THEN <<s>>
    ELSE <<SubSeq(s, 1, i - 1)>> \o Split(SubSeq(s, i + 1, Len(s)), sep)

\* the upper and lower case of one token
UpperTok(t) ==
    CASE t = "md5" -> "MD5"
      [] t = "sha1" -> "SHA1"
      [] t = "sha256" -> "SHA256"
      [] t = "Md5" -> "MD5"
      [] t = "Probable" -> "PROBABLE"
      [] t = "Name" -> "NAME"
      [] t = "Group" -> "GROUP"
      [] t = "Scenario" -> "SCENARIO"
      [] t = "Note" -> "NOTE"
      [] t = "Neris" -> "NERIS"
      [] t = "neris" -> "NERIS"
      [] t = "Botnet" -> "BOTNET"
      [] t = "botnet" -> "BOTNET"
      [] t = "pcap" -> "PCAP"
      [] t = "zip" -> "ZIP"
      [] t = "html" -> "HTML"
      [] t = "binetflow" -> "BINETFLOW"
      [] t = "deadbeef" -> "DEADBEEF"
      [] t = "cafef00d" -> "CAFEF00D"
      [] t = "Zeus" -> "ZEUS"
      [] t = "zeus" -> "ZEUS"
      [] t = "Infected" -> "INFECTED"
      [] t = "at" -> "AT"
      [] t = "x" -> "X"
      [] t = "ab" -> "AB"
      [] OTHER -> t

LowerTok(t) ==
    CASE t = "MD5" -> "md5"
      [] t = "Md5" -> "md5"
      [] t = "Probable" -> "probable"
      [] t = "Name" -> "name"
      [] t = "Neris" -> "neris"
      [] t = "NERIS" -> "neris"
      [] t = "Botnet" -> "botnet"
      [] t = "BOTNET" -> "botnet"
      [] t = "DEADBEEF" -> "deadbeef"
      [] t = "CAFEF00D" -> "cafef00d"
      [] t = "Zeus" -> "zeus"
      [] t = "ZEUS" -> "zeus"
      [] t = "AB" -> "ab"
      [] OTHER -> t

\* s.upper()
Upper(s) == [i \in 1..Len(s) |-> UpperTok(s[i])]

\* a lower() that leaves the case as it is
Lower_Identity(s) == s

\* s.lower()
Lower(s) == [i \in 1..Len(s) |-> LowerTok(s[i])]

\* s.replace(a, b), a and b one character each
Replace(s, a, b) == [i \in 1..Len(s) |-> IF s[i] = a THEN b ELSE s[i]]

Whitespace == {" ", "\t"}

\* s.strip()
RECURSIVE LStrip(_)
LStrip(s) ==
    IF s # <<>> /\ Head(s) \in Whitespace THEN LStrip(Tail(s)) ELSE s

RECURSIVE RStrip(_)
RStrip(s) ==
    IF s # <<>> /\ s[Len(s)] \in Whitespace
    THEN RStrip(SubSeq(s, 1, Len(s) - 1))
    ELSE s

Strip(s) == RStrip(LStrip(s))

\* os.path.splitext(p)[-1]: the extension with its dot, or the empty string
RECURSIVE OnlyDots(_, _, _)
OnlyDots(p, i, j) ==
    IF i >= j THEN TRUE
    ELSE IF p[i] # "." THEN FALSE
    ELSE OnlyDots(p, i + 1, j)

SplitExt(p) ==
    LET sepIndex == RFind(p, "/", Len(p))
        dotIndex == RFind(p, ".", Len(p))
    IN  IF dotIndex > sepIndex /\ ~OnlyDots(p, sepIndex + 1, dotIndex)
        THEN SubSeq(p, dotIndex, Len(p))
        ELSE <<>>

\* x in list
InList(x, list) == \E i \in 1..Len(list) : list[i] = x

\* the elements of a finite set in one fixed order
RECURSIVE SetToSeq(_)
SetToSeq(S) ==
    IF S = {} THEN <<>>
    ELSE LET x == CHOOSE y \in S : TRUE IN <<x>> \o SetToSeq(S \ {x})

(* ------------------------------------------------------------------ *)
(* Python and JSON values                                              *)
(* ------------------------------------------------------------------ *)
PyStr(s) == <<"str", s>>
PyBool(b) == <<"bool", b>>
PyNone == <<"NoneType">>

\* d[k] = v on a dict
SetItem(d, k, v) == [x \in (DOMAIN d) \cup {k} |-> IF x = k THEN v ELSE d[x]]

EmptyDict == [x \in {} |-> PyNone]

(* ------------------------------------------------------------------ *)
(* Program constants                                                   *)
(* ------------------------------------------------------------------ *)
__GROUPS__ == << <<"ctu13">>, <<"mixed">>, <<"normal">>, <<"malware">> >>

__NETFLOW_DATA_DIR__ == <<"detailed-bidirectional-flow-labels", "/">>

__CACHE_TIMEOUT__ == 60 * 60 * 24 * 7

__COLUMNS__ ==
    << <<"SCENARIO">>,
       <<"GROUP">>,
       <<"SCENARIO", "_", "URL">>,
       <<"PROBABLE", "_", "NAME">>,
       <<"ZIP">>,
       <<"MD5">>,
       <<"SHA1">>,
       <<"SHA256">>,
       <<"LABELED">>,
       <<"BINETFLOW">>,
       <<"PCAP">> >>

\* the keys of a scenario's dict that are not scraped labels
K_GROUP == <<"GROUP">>
K_URL == <<"URL">>
K_PAGE == <<"_PAGE">>
K_SUCCESS == <<"_SUCCESS">>

(* ------------------------------------------------------------------ *)
(* Pages: what BeautifulSoup gives of an HTML text, its visible lines  *)
(* (soup.text.splitlines()) and its anchors (soup.findAll('a'))        *)
(* ------------------------------------------------------------------ *)
A(href) == [has_href |-> TRUE, href |-> href]
NoHref == [has_href |-> FALSE, href |-> <<>>]

Page(text, anchors) == [text |-> text, anchors |-> anchors]

\* the page of an empty body
EmptyPage == Page(<<>>, <<>>)

\* needle in page, on the raw text of the page
PageContains(needle, page) ==
    \/ \E i \in 1..Len(page.text) : IsSubstr(needle, page.text[i])
    \/ \E i \in 1..Len(page.anchors) : IsSubstr(needle, page.anchors[i].href)

(* ------------------------------------------------------------------ *)
(* record_scenario_metadata: the scrape of one scenario page           *)
(* ------------------------------------------------------------------ *)
\* url_parts[url_parts.index('publicDatasets') + 1]
ScenarioName(url) ==
    LET url_parts == Split(url, "/")
        idx == CHOOSE i \in 1..Len(url_parts) :
                   /\ url_parts[i] = <<"publicDatasets">>
                   /\ \A j \in 1..(i - 1) : url_parts[j] # <<"publicDatasets">>
    IN  url_parts[idx + 1]

\* page not in ["", None] and "Not Found" not in page
PageSuccess(page) ==
    page # EmptyPage /\ ~PageContains(<<"Not", " ", "Found">>, page)

\* lines 265-275: a "label: value" line sets the column named by the label
ColonLine(_scenario, line, columns) ==
    IF IsSubstr(<<":">>, line) /\ line # <<":">>
    THEN LET parts == Split(line, ":") IN
         IF Len(parts) # 2
         THEN _scenario  \* ValueError of the unpacking, swallowed
         ELSE LET k == Replace(Upper(parts[1]), " ", "_")
                  v == Strip(parts[2])
              IN  IF InList(k, columns)
                  THEN SetItem(_scenario, k, PyStr(v))
                  ELSE _scenario
    ELSE _scenario

\* lines 254-275 from line i on, up to the next await: at = 0 when the loop
\* is over, else the line whose subpage is to be fetched
RECURSIVE ScanLines(_, _, _, _)
ScanLines(_scenario, lines, i, columns) ==
    IF i > Len(lines) THEN [attrs |-> _scenario, at |-> 0]
    ELSE IF IsSubstr(__NETFLOW_DATA_DIR__, lines[i])
    THEN [attrs |-> _scenario, at |-> i]
    ELSE ScanLines(ColonLine(_scenario, lines[i], columns), lines, i + 1,
                   columns)

\* lines 260-264: the first anchor of the subpage ending in .binetflow;
\* item['href'] raises KeyError on an anchor without href
RECURSIVE ScanSubAnchors(_, _, _)
ScanSubAnchors(_scenario, anchors, j) ==
    IF j > Len(anchors) THEN [attrs |-> _scenario, err |-> "None"]
    ELSE IF ~anchors[j].has_href THEN [attrs |-> _scenario, err |-> "KeyError"]
    ELSE IF EndsWith(anchors[j].href, <<".", "binetflow">>)
    THEN [attrs |-> SetItem(_scenario, <<"BINETFLOW">>,
                            PyStr(__NETFLOW_DATA_DIR__ \o anchors[j].href)),
          err |-> "None"]
    ELSE ScanSubAnchors(_scenario, anchors, j + 1)

\* lines 276-287: an anchor whose extension names a column sets that column
RECURSIVE ScanAnchors(_, _, _, _)
ScanAnchors(_scenario, anchors, j, columns) ==
    IF j > Len(anchors) THEN _scenario
    ELSE LET href == IF anchors[j].has_href THEN anchors[j].href ELSE <<>>
             ext == SplitExt(href)
             href_ext == Upper(SubSeq(ext, 2, Len(ext)))
             next == IF StartsWith(href, <<"?">>) THEN _scenario
                     ELSE IF href_ext = <<>> THEN _scenario
                     ELSE IF InList(href_ext, columns)
                     THEN SetItem(_scenario, href_ext, PyStr(href))
                     ELSE _scenario
         IN  ScanAnchors(next, anchors, j + 1, columns)

(* ------------------------------------------------------------------ *)
(* get_scenarios: the scenario URLs of a landing page                  *)
(* ------------------------------------------------------------------ *)
RECURSIVE ScenarioHrefs(_, _)
ScenarioHrefs(anchors, j) ==
    IF j > Len(anchors) THEN <<>>
    ELSE LET href == IF anchors[j].has_href THEN anchors[j].href ELSE <<>>
             keep == /\ ~StartsWith(href, <<"?">>)
                     /\ IsSubstr(<<"/", "publicDatasets", "/">>, href)
                     /\ EndsWith(href, <<"/">>)
         IN  (IF keep THEN <<href>> ELSE <<>>) \o ScenarioHrefs(anchors, j + 1)

get_scenarios(landing) == ScenarioHrefs(landing.anchors, 1)

(* ------------------------------------------------------------------ *)
(* json.dump and json.load of the cache                                *)
(* ------------------------------------------------------------------ *)
\* A JSON value is <<tag, payload>>; an object keeps its members and their order.
JObject(order, members) == <<"object", [order |-> order, members |-> members]>>

JEncode(v) ==
    CASE v[1] = "str" -> <<"string", v[2]>>
      [] v[1] = "bool" -> IF v[2] THEN <<"true", <<>>>> ELSE <<"false", <<>>>>
      [] OTHER -> <<"null", <<>>>>

JDecode(j) ==
    CASE j[1] = "string" -> PyStr(j[2])
      [] j[1] = "true" -> PyBool(TRUE)
      [] j[1] = "false" -> PyBool(FALSE)
      [] OTHER -> PyNone

\* a dump that leaves the raw page out
EncodeDict_NoPage(d) ==
    JObject(SetToSeq((DOMAIN d) \ {<<"_PAGE">>}),
            [k \in (DOMAIN d) \ {<<"_PAGE">>} |-> JEncode(d[k])])

\* a scenario's dict
EncodeDict(d) ==
    JObject(SetToSeq(DOMAIN d), [k \in DOMAIN d |-> JEncode(d[k])])

DecodeDict(j) == [k \in DOMAIN j[2].members |-> JDecode(j[2].members[k])]

\* self.scenarios: an OrderedDict, names in insertion order
EmptyStore == [order |-> <<>>, rec |-> [n \in {} |-> EmptyDict]]

EncodeStore(store) ==
    JObject(store.order, [n \in DOMAIN store.rec |-> EncodeDict(store.rec[n])])

DecodeStore(j) ==
    [order |-> j[2].order,
     rec |-> [n \in DOMAIN j[2].members |-> DecodeDict(j[2].members[n])]]

EncodeList(list) == <<"array", [i \in 1..Len(list) |-> <<"string", list[i]>>]>>

DecodeList(j) == [i \in 1..Len(j[2]) |-> j[2][i][2]]

\* json.dump(_cache, outfile), _cache = {'scenarios': ..., 'columns': ...}
JsonDump(store, cols) ==
    JObject(<< <<"scenarios">>, <<"columns">> >>,
            (<<"scenarios">> :> EncodeStore(store))
                @@ (<<"columns">> :> EncodeList(cols)))

(* ------------------------------------------------------------------ *)
(* The cache file                                                      *)
(* ------------------------------------------------------------------ *)
\* The content of a file is a sequence of chunks, a JSON document or bytes
\* that are none; st_size is 0 iff there is no chunk.
NoFile == [exists |-> FALSE, content |-> <<>>, mtime |-> 0]
File(content, mtime) == [exists |-> TRUE, content |-> content, mtime |-> mtime]
JsonText(doc) == <<[kind |-> "json", doc |-> doc]>>
GarbageText == <<[kind |-> "bytes", doc |-> <<"null", <<>>>>]>>

\* cache_expired(self, cache_timeout): the answer and the file it leaves
cache_expired(file, time, timeout) ==
    IF ~file.exists
    THEN [expired |-> TRUE, file |-> file]  \* FileNotFoundError
    ELSE LET age == time - file.mtime IN
         [expired |-> ~(age <= timeout),
          file |-> IF Len(file.content) = 0 THEN NoFile ELSE file]

\* write_cache(self): the file it leaves
write_cache(store, cols, time) == File(JsonText(JsonDump(store, cols)), time)

\* read_cache(self): the exception raised ("None": none), the value returned,
\* self.scenarios, self.columns and the file it leaves
read_cache(store, cols, file, time) ==
    LET ce == cache_expired(file, time, __CACHE_TIMEOUT__)
        keep == [err |-> "None", ret |-> FALSE, scenarios |-> store,
                 columns |-> cols, file |-> ce.file]
    IN  IF ce.expired THEN keep
        ELSE IF ~ce.file.exists
        THEN [keep EXCEPT !.err = "FileNotFoundError"]
        ELSE IF ce.file.content[1].kind # "json"
        THEN [keep EXCEPT !.err = "JSONDecodeError"]
        ELSE LET _cache == ce.file.content[1].doc IN
             IF _cache[1] # "object"
             THEN [keep EXCEPT !.err = "TypeError"]
             ELSE IF <<"scenarios">> \notin DOMAIN _cache[2].members
             THEN [keep EXCEPT !.err = "KeyError"]
             ELSE LET loaded == DecodeStore(_cache[2].members[<<"scenarios">>])
                  IN  IF <<"columns">> \notin DOMAIN _cache[2].members
                      THEN [keep EXCEPT !.err = "KeyError",
                                        !.scenarios = loaded]
                      ELSE [keep EXCEPT
                              !.ret = TRUE,
                              !.scenarios = loaded,
                              !.columns =
                                  DecodeList(_cache[2].members[<<"columns">>])]

(* ------------------------------------------------------------------ *)
(* get_metadata: the rows of the store a query asks for                *)
(* ------------------------------------------------------------------ *)
\* bool(v)
Truthy(v) ==
    CASE v[1] = "bool" -> v[2]
      [] v[1] = "str" -> v[2] # <<>>
      [] OTHER -> FALSE

\* a query that forgets the test of line 405
SkipUnsuccessful_Never(attributes) == FALSE

\* line 405: '_SUCCESS' in attributes and not attributes['_SUCCESS']
SkipUnsuccessful(attributes) ==
    K_SUCCESS \in DOMAIN attributes /\ ~Truthy(attributes[K_SUCCESS])

\* line 407: 'GROUP' in attributes and attributes['GROUP'] not in groups
SkipGroup(attributes, groups) ==
    K_GROUP \in DOMAIN attributes /\ ~InList(attributes[K_GROUP][2], groups)

\* lines 409-416, name_includes given
SkipName(attributes, name_includes) ==
    \/ <<"PROBABLE", "_", "NAME">> \notin DOMAIN attributes
    \/ ~IsSubstr(Lower(name_includes),
                 Lower(attributes[<<"PROBABLE", "_", "NAME">>][2]))

\* lines 420-424, has_hash given: "KeyError", "skip" or "keep"; the three
\* lookups are made in order and stop at the first equal one
HashTest(attributes, has_hash) ==
    IF <<"MD5">> \notin DOMAIN attributes THEN "KeyError"
    ELSE IF PyStr(has_hash) = attributes[<<"MD5">>] THEN "keep"
    ELSE IF <<"SHA1">> \notin DOMAIN attributes THEN "KeyError"
    ELSE IF PyStr(has_hash) = attributes[<<"SHA1">>] THEN "keep"
    ELSE IF <<"SHA256">> \notin DOMAIN attributes THEN "KeyError"
    ELSE IF PyStr(has_hash) = attributes[<<"SHA256">>] THEN "keep"
    ELSE "skip"

\* a projection that renders a field the record lacks as ''
Row_EmptyString(scenario, attributes, cols) ==
    [i \in 1..Len(cols) |->
        IF cols[i] = <<"SCENARIO">> THEN PyStr(scenario)
        ELSE IF cols[i] = <<"SCENARIO", "_", "URL">> THEN attributes[K_URL]
        ELSE IF cols[i] \in DOMAIN attributes THEN attributes[cols[i]]
        ELSE PyStr(<<>>)]

\* lines 417-419 and 426-429: [row.get(c) for c in self.columns]
Row(scenario, attributes, cols) ==
    [i \in 1..Len(cols) |->
        IF cols[i] = <<"SCENARIO">> THEN PyStr(scenario)
        ELSE IF cols[i] = <<"SCENARIO", "_", "URL">> THEN attributes[K_URL]
        ELSE IF cols[i] \in DOMAIN attributes THEN attributes[cols[i]]
        ELSE PyNone]

\* the loop of get_metadata from the i-th scenario on; name_includes and
\* has_hash are PyNone or a PyStr
RECURSIVE MetadataFrom(_, _, _, _, _, _, _)
MetadataFrom(store, cols, groups, name_includes, has_hash, i, data) ==
    IF i > Len(store.order) THEN [err |-> "None", data |-> data]
    ELSE
      LET scenario == store.order[i]
          attributes == store.rec[scenario]
          continue == MetadataFrom(store, cols, groups, name_includes,
                                   has_hash, i + 1, data)
      IN  IF SkipUnsuccessful(attributes) THEN continue
          ELSE IF SkipGroup(attributes, groups) THEN continue
          ELSE IF name_includes # PyNone
                  /\ SkipName(attributes, name_includes[2]) THEN continue
          ELSE IF K_URL \notin DOMAIN attributes
          THEN [err |-> "KeyError", data |-> <<>>]
          ELSE LET h == IF has_hash = PyNone THEN "keep"
                        ELSE HashTest(attributes, has_hash[2])
               IN  IF h = "KeyError" THEN [err |-> "KeyError", data |-> <<>>]
                   ELSE IF h = "skip" THEN continue
                   ELSE MetadataFrom(store, cols, groups, name_includes,
                                     has_hash, i + 1,
                                     Append(data, Row(scenario, attributes, cols)))

\* get_metadata(self, groups, name_includes, has_hash): the exception raised
\* ("None": none) and the rows returned
get_metadata(store, cols, groups, name_includes, has_hash) ==
    MetadataFrom(store, cols, groups, name_includes, has_hash, 1, <<>>)

(* ------------------------------------------------------------------ *)
(* The catalog site: the inputs of a session                           *)
(* ------------------------------------------------------------------ *)
DatasetsPrefix == <<"https:", "/", "/", "mcfp", "/", "publicDatasets", "/">>
ScenarioURL(name) == DatasetsPrefix \o <<name, "/">>

NetflowLine == <<"detailed-bidirectional-flow-labels", "/">>

\* a scenario page with label lines, the netflow directory and file links
FullPage ==
    Page(<< <<"Probable", " ", "Name", ":", " ", "Neris", "-", "Botnet">>,
            <<"MD5", ":", " ", "deadbeef">>,
            NetflowLine,
            <<"SHA1", ":", " ", "cafef00d", " ">>,
            <<"Note", ":", " ", "x">>,
            <<"Group", ":", " ", "malware">> >>,
         << A(<<"?", "C=N">>),
            A(<<"capture", ".", "pcap">>),
            NoHref,
            A(NetflowLine) >>)

\* a scenario page without the netflow directory
PlainPage ==
    Page(<< <<"SHA256", ":", " ", "cafef00d">>,
            <<"Infected", " ", "at", ":", " ", "12", ":", "30">>,
            <<"Scenario", ":", " ", "x">> >>,
         << A(<<"sample", ".", "zip">>), A(<<"README", ".", "html">>) >>)

\* the server's answer for a path it does not have
NotFoundPage == Page(<< <<"404", " ", "Not", " ", "Found">> >>, <<>>)

\* a page with the text "Not Found" in it, and more
NotFoundFieldsPage ==
    Page(<< <<"Not", " ", "Found">>,
            <<"MD5", ":", " ", "deadbeef">>,
            NetflowLine >>,
         << A(<<"sample", ".", "zip">>) >>)

\* the listing of a netflow directory
ListingPage ==
    Page(<<>>,
         << A(<<"?", "C=N">>),
            A(<<"README", ".", "html">>),
            A(<<"capture", ".", "binetflow">>),
            A(<<"other", ".", "binetflow">>) >>)

\* a listing whose first anchor has no href (<a name="top">)
ListingNoHref ==
    Page(<<>>,
         << NoHref,
            A(<<"capture", ".", "binetflow">>) >>)

Landing(urls) ==
    Page(<<>>,
         << A(<<"?", "C=N">>), NoHref >> \o [i \in 1..Len(urls) |-> A(urls[i])]
             \o << A(<<"https:", "/", "/", "other", "/">>) >>)

\* a site: the landing page of every group, and the pages of its URLs
Site1 ==
    [landing |->
        [g \in {__GROUPS__[i] : i \in 1..Len(__GROUPS__)} |->
            IF g = <<"ctu13">>
            THEN Landing(<<ScenarioURL("CTU-1"), ScenarioURL("CTU-2")>>)
            ELSE IF g = <<"mixed">> THEN Landing(<<ScenarioURL("CTU-3")>>)
            ELSE Landing(<<>>)],
     pages |->
        (ScenarioURL("CTU-1") :> FullPage)
            @@ (ScenarioURL("CTU-1") \o __NETFLOW_DATA_DIR__ :> ListingPage)
            @@ (ScenarioURL("CTU-2") :> NotFoundFieldsPage)
            @@ (ScenarioURL("CTU-2") \o __NETFLOW_DATA_DIR__ :> ListingNoHref)
            @@ (ScenarioURL("CTU-3") :> PlainPage)]

\* the same site with no scenario under ctu13
Site2 ==
    [Site1 EXCEPT !.landing[<<"ctu13">>] = Landing(<<>>)]

Sites == {Site1, Site2}

\* the body the server sends for url
Fetch(s, url) ==
    IF url \in DOMAIN s.pages THEN s.pages[url] ELSE NotFoundPage

\* the cache files a session may find
SnapshotStore ==
    [order |-> << <<"CTU-9">> >>,
     rec |-> (<<"CTU-9">> :>
                ((K_GROUP :> PyStr(<<"ctu13">>))
                   @@ (K_URL :> PyStr(ScenarioURL("CTU-9")))
                   @@ (K_PAGE :> PyStr(PlainPage))
                   @@ (K_SUCCESS :> PyBool(TRUE))
                   @@ (<<"MD5">> :> PyStr(<<"deadbeef">>))))]

CacheContents ==
    { <<>>,
      GarbageText,
      JsonText(JObject(<<>>, [k \in {} |-> <<"null", <<>>>>])),
      JsonText(JObject(<< <<"scenarios">> >>,
                       <<"scenarios">> :> EncodeStore(SnapshotStore))),
      JsonText(JsonDump(SnapshotStore, __COLUMNS__)) }

\* the ages (seconds) of the cache file at the start of a session
ShortTimeout == 60 * 60
Ages == {0, ShortTimeout + 1, __CACHE_TIMEOUT__, __CACHE_TIMEOUT__ + 1}

\* the arguments of the constructor
GroupArgs ==
    { << <<"ctu13">> >>, << <<"ctu13">>, <<"mixed">> >>, << <<"all">> >>,
      << <<"ctu13">>, <<"bogus">> >> }
TimeoutArgs == {ShortTimeout, __CACHE_TIMEOUT__, 2 * __CACHE_TIMEOUT__}

(* ------------------------------------------------------------------ *)
(* State                                                               *)
(* ------------------------------------------------------------------ *)
VARIABLES
    groups,           \* self.groups
    columns,          \* self.columns
    cache_timeout,    \* self.cache_timeout
    semaphore_limit,  \* self.semaphore_limit
    ignore_cache,     \* self.ignore_cache
    scenarios,        \* self.scenarios
    sem,              \* self.sem: [value, waiters]
    cache_file,       \* the file named self.cache_file
    now,              \* time.time()
    site,             \* the catalog the session scrapes
    pc,               \* where the caller of the object is
    err,              \* the exception that reached the caller, "None" if none
    gi,               \* load_ctu_metadata: index of the group of the loop
    tasks,            \* fetch_main: the tasks of asyncio.wait
    ready,            \* the event loop's queue of tasks ready to run
    fails,            \* transport failures so far
    nfetch,           \* history: fetches issued, by kind
    start,            \* history: cache file and time at the start
    expired,          \* history: what cache_expired() answered at line 223
    wrote,            \* history: write_cache ran
    query,            \* the arguments of the last get_metadata
    result,           \* what the last get_metadata gave
    saved             \* history: the store and schema of the last write_cache

vars ==
    <<groups, columns, cache_timeout, semaphore_limit, ignore_cache,
      scenarios, sem, cache_file, now, site, pc, err, gi, tasks, ready,
      fails, nfetch, start, expired, wrote, query, result, saved>>

config == <<groups, cache_timeout, semaphore_limit, ignore_cache, site, start>>
harvest == <<gi, tasks, ready, fails, nfetch, sem>>
asked == <<query, result, saved>>

NoQuery == [groups |-> <<>>, name_includes |-> PyNone, has_hash |-> PyNone]
NoResult == [err |-> "None", data |-> <<>>]
NotSaved == [scenarios |-> EmptyStore, columns |-> <<>>]

(* ------------------------------------------------------------------ *)
(* __init__                                                            *)
(* ------------------------------------------------------------------ *)
\* a constructor that takes any group
GroupsValid_Any(gs) == TRUE

\* lines 195-201: every group asked for is one of __GROUPS__
GroupsValid(gs) == \A i \in 1..Len(gs) : InList(gs[i], __GROUPS__)

\* the object as __init__ leaves it, and the world it finds
Constructed(gs, timeout, limit, ignore, file, time, s) ==
    /\ groups = gs
    /\ columns = __COLUMNS__
    /\ cache_timeout = timeout
    /\ semaphore_limit = limit
    /\ ignore_cache = ignore
    /\ scenarios = EmptyStore
    /\ sem = [value |-> limit, waiters |-> <<>>]
    /\ cache_file = file
    /\ now = time
    /\ site = s
    /\ pc = IF GroupsValid(gs) THEN "constructed" ELSE "raised"
    /\ err = IF GroupsValid(gs) THEN "None" ELSE "RuntimeError"
    /\ gi = 0
    /\ tasks = <<>>
    /\ ready = <<>>
    /\ fails = 0
    /\ nfetch = [landing |-> 0, scenario |-> 0, sub |-> 0]
    /\ start = [file |-> file, now |-> time]
    /\ expired = "unset"
    /\ wrote = FALSE
    /\ query = NoQuery
    /\ result = NoResult
    /\ saved = NotSaved

Init ==
    \E gs \in GroupArgs, timeout \in TimeoutArgs, limit \in 1..MaxLimit,
       ignore \in BOOLEAN, s \in Sites :
        \/ Constructed(gs, timeout, limit, ignore, NoFile, 0, s)
        \/ \E content \in CacheContents, age \in Ages :
               Constructed(gs, timeout, limit, ignore, File(content, 0), age, s)

(* ------------------------------------------------------------------ *)
(* load_ctu_metadata                                                   *)
(* ------------------------------------------------------------------ *)
\* line 223: the test of the cache; cache_expired() runs first and may
\* delete the file
LoadStart ==
    /\ pc = "constructed"
    /\ LET ce == cache_expired(cache_file, now, __CACHE_TIMEOUT__) IN
       /\ cache_file' = ce.file
       /\ expired' = IF ce.expired THEN "True" ELSE "False"
       /\ IF ~ce.expired /\ ~ignore_cache
          THEN pc' = "read_cache" /\ gi' = gi
          ELSE pc' = "loop" /\ gi' = 1
    /\ UNCHANGED <<config, columns, scenarios, sem, now, err, tasks, ready,
                   fails, nfetch, wrote, asked>>

\* the clock moves on between the test of line 223 and that of line 340,
\* and between a write_cache and the read_cache after it
Tick ==
    /\ pc \in {"read_cache", "written", "reopened"}
    /\ now - start.now < MaxTick
    /\ now' = now + 1
    /\ UNCHANGED <<config, columns, scenarios, cache_file, pc, err, harvest,
                   expired, wrote, asked>>

\* line 224: self.read_cache()
ReadCache ==
    /\ pc = "read_cache"
    /\ LET r == read_cache(scenarios, columns, cache_file, now) IN
       /\ scenarios' = r.scenarios
       /\ columns' = r.columns
       /\ cache_file' = r.file
       /\ err' = r.err
       /\ pc' = IF r.err = "None" THEN "done" ELSE "raised"
    /\ UNCHANGED <<config, now, harvest, expired, wrote, asked>>

(* ------------------------------------------------------------------ *)
(* The harvest: get_scenarios, fetch_main and the tasks of asyncio.wait *)
(* ------------------------------------------------------------------ *)
\* the orders in which the loop may first run n tasks made from a set
Orders(n) ==
    {o \in [1..n -> 1..n] : \A i, j \in 1..n : o[i] = o[j] => i = j}

\* turn records the order in which the tasks joined the semaphore's queue
\* (0: never queued); the program keeps that order in the deque alone
NewTask(url) ==
    [url |-> url, pc |-> "new", li |-> 0, page |-> EmptyPage,
     res |-> [ok |-> TRUE, page |-> EmptyPage], exc |-> "None", turn |-> 0]

Finished(t) == tasks[t].pc \in {"done", "failed"}

\* line 383: requests.get raises; nothing catches it
GetScenariosFails ==
    /\ pc = "loop"
    /\ gi <= Len(groups)
    /\ fails < MaxFailures
    /\ fails' = fails + 1
    /\ nfetch' = [nfetch EXCEPT !.landing = @ + 1]
    /\ pc' = "raised"
    /\ err' = "ConnectionError"
    /\ UNCHANGED <<config, columns, scenarios, sem, cache_file, now, gi,
                   tasks, ready, expired, wrote, asked>>

\* lines 229-232 and 302-308: the scenario URLs of the group, and one task
\* for each; asyncio.wait raises ValueError on an empty list
FetchMain ==
    /\ pc = "loop"
    /\ gi <= Len(groups)
    /\ nfetch' = [nfetch EXCEPT !.landing = @ + 1]
    /\ LET urls == get_scenarios(site.landing[groups[gi]]) IN
       IF urls = <<>>
       THEN /\ pc' = "raised"
            /\ err' = "ValueError"
            /\ UNCHANGED <<tasks, ready>>
       ELSE /\ pc' = "running"
            /\ err' = err
            /\ tasks' = [i \in 1..Len(urls) |-> NewTask(urls[i])]
            /\ \E o \in Orders(Len(urls)) : ready' = o
    /\ UNCHANGED <<config, columns, scenarios, sem, cache_file, now, gi,
                   fails, expired, wrote, asked>>

NextTurn(tk) == 1 + Cardinality({u \in DOMAIN tk : tk[u].turn > 0})

\* Semaphore.acquire by task t: the slot, or the end of the queue
SemAcquire(sm, tk, t) ==
    IF sm.value > 0
    THEN [sem |-> [sm EXCEPT !.value = @ - 1],
          tasks |-> [tk EXCEPT ![t].pc = "fetch"]]
    ELSE [sem |-> [sm EXCEPT !.waiters = Append(@, t)],
          tasks |-> [tk EXCEPT ![t].pc = "sem_wait",
                               ![t].turn = IF @ = 0 THEN NextTurn(tk) ELSE @]]

\* a release that wakes the waiter that came last
SemRelease_Last(sm, tk, rd) ==
    IF sm.waiters = <<>>
    THEN [sem |-> [sm EXCEPT !.value = @ + 1], tasks |-> tk, ready |-> rd]
    ELSE LET last == sm.waiters[Len(sm.waiters)] IN
         [sem |-> [value |-> sm.value + 1,
                   waiters |-> SubSeq(sm.waiters, 1, Len(sm.waiters) - 1)],
          tasks |-> [tk EXCEPT ![last].pc = "woken"],
          ready |-> Append(rd, last)]

\* a release that wakes the first waiter and keeps the slot
SemRelease_Leak(sm, tk, rd) ==
    IF sm.waiters = <<>>
    THEN [sem |-> sm, tasks |-> tk, ready |-> rd]
    ELSE [sem |-> [value |-> sm.value, waiters |-> Tail(sm.waiters)],
          tasks |-> [tk EXCEPT ![Head(sm.waiters)].pc = "woken"],
          ready |-> Append(rd, Head(sm.waiters))]

\* Semaphore.release: the slot back, and the first waiter woken
SemRelease(sm, tk, rd) ==
    IF sm.waiters = <<>>
    THEN [sem |-> [sm EXCEPT !.value = @ + 1], tasks |-> tk, ready |-> rd]
    ELSE [sem |-> [value |-> sm.value + 1, waiters |-> Tail(sm.waiters)],
          tasks |-> [tk EXCEPT ![Head(sm.waiters)].pc = "woken"],
          ready |-> Append(rd, Head(sm.waiters))]

\* lines 241-245: the scenario's dict, made if the name is new
Enter(store, name, group, url) ==
    LET d == IF name \in DOMAIN store.rec THEN store.rec[name] ELSE EmptyDict
        d2 == SetItem(SetItem(d, K_GROUP, PyStr(group)), K_URL, PyStr(url))
    IN  [order |-> IF name \in DOMAIN store.rec THEN store.order
                   ELSE Append(store.order, name),
         rec |-> SetItem(store.rec, name, d2)]

\* lines 254-287 from line i on: to the next subpage fetch or to the end
ParseFrom(_scenario, page, i, cols) ==
    LET r == ScanLines(_scenario, page.text, i, cols) IN
    IF r.at = 0
    THEN [attrs |-> ScanAnchors(r.attrs, page.anchors, 1, cols), at |-> 0]
    ELSE r

\* the first step of a task: lines 237-246, up to the fetch or the queue
StartTask ==
    /\ pc = "running"
    /\ ready # <<>>
    /\ tasks[Head(ready)].pc = "new"
    /\ LET t == Head(ready)
           url == tasks[t].url
           a == SemAcquire(sem, tasks, t)
       IN  /\ scenarios' = Enter(scenarios, ScenarioName(url), groups[gi], url)
           /\ sem' = a.sem
           /\ tasks' = a.tasks
           /\ nfetch' = IF a.tasks[t].pc = "fetch"
                        THEN [nfetch EXCEPT !.scenario = @ + 1]
                        ELSE nfetch
    /\ ready' = Tail(ready)
    /\ UNCHANGED <<config, columns, cache_file, now, pc, err, gi, fails,
                   expired, wrote, asked>>

\* a waiter woken by release goes round the loop of acquire again
ResumeWaiter ==
    /\ pc = "running"
    /\ ready # <<>>
    /\ tasks[Head(ready)].pc = "woken"
    /\ LET t == Head(ready)
           a == SemAcquire(sem, tasks, t)
       IN  /\ sem' = a.sem
           /\ tasks' = a.tasks
           /\ nfetch' = IF a.tasks[t].pc = "fetch"
                        THEN [nfetch EXCEPT !.scenario = @ + 1]
                        ELSE nfetch
    /\ ready' = Tail(ready)
    /\ UNCHANGED <<config, columns, scenarios, cache_file, now, pc, err, gi,
                   fails, expired, wrote, asked>>

\* the server answers a fetch in flight
Response(t) ==
    /\ pc = "running"
    /\ t \in DOMAIN tasks
    /\ tasks[t].pc \in {"fetch", "subfetch"}
    /\ LET url == IF tasks[t].pc = "fetch" THEN tasks[t].url
                  ELSE tasks[t].url \o __NETFLOW_DATA_DIR__
       IN  tasks' = [tasks EXCEPT
                       ![t].res = [ok |-> TRUE, page |-> Fetch(site, url)],
                       ![t].pc = IF @ = "fetch" THEN "fetch_ret" ELSE "sub_ret"]
    /\ ready' = Append(ready, t)
    /\ UNCHANGED <<config, columns, scenarios, sem, cache_file, now, pc, err,
                   gi, fails, nfetch, expired, wrote, asked>>

\* a fetch in flight times out (line 291) or the transport fails
TransportFailure(t) ==
    /\ pc = "running"
    /\ t \in DOMAIN tasks
    /\ tasks[t].pc \in {"fetch", "subfetch"}
    /\ fails < MaxFailures
    /\ fails' = fails + 1
    /\ tasks' = [tasks EXCEPT
                   ![t].res = [ok |-> FALSE, page |-> EmptyPage],
                   ![t].pc = IF @ = "fetch" THEN "fetch_ret" ELSE "sub_ret"]
    /\ ready' = Append(ready, t)
    /\ UNCHANGED <<config, columns, scenarios, sem, cache_file, now, pc, err,
                   gi, nfetch, expired, wrote, asked>>

\* what a task does with a parse that got to line at (0: to the end)
AfterParse(tk, t, at) ==
    [tk EXCEPT ![t].li = at,
               ![t].pc = IF at = 0 THEN "done" ELSE "subfetch"]

\* lines 246-258 and 296-300: the scenario fetch is over; the slot is given
\* back, then the page is recorded and scanned; a failed fetch ends the task
FetchReturns ==
    /\ pc = "running"
    /\ ready # <<>>
    /\ tasks[Head(ready)].pc = "fetch_ret"
    /\ LET t == Head(ready)
           rel == SemRelease(sem, tasks, Tail(ready))
           name == ScenarioName(tasks[t].url)
           page == tasks[t].res.page
           d == SetItem(SetItem(scenarios.rec[name], K_PAGE, PyStr(page)),
                        K_SUCCESS, PyBool(PageSuccess(page)))
           p == ParseFrom(d, page, 1, columns)
       IN  /\ sem' = rel.sem
           /\ ready' = rel.ready
           /\ IF ~tasks[t].res.ok
              THEN /\ tasks' = [rel.tasks EXCEPT ![t].pc = "failed",
                                                 ![t].exc = "TimeoutError"]
                   /\ UNCHANGED <<scenarios, nfetch>>
              ELSE /\ tasks' = AfterParse([rel.tasks EXCEPT ![t].page = page],
                                          t, p.at)
                   /\ scenarios' = [scenarios EXCEPT !.rec[name] = p.attrs]
                   /\ nfetch' = IF p.at = 0 THEN nfetch
                                ELSE [nfetch EXCEPT !.sub = @ + 1]
    /\ UNCHANGED <<config, columns, cache_file, now, pc, err, gi, fails,
                   expired, wrote, asked>>

\* lines 257-275: the subpage fetch is over; its anchors are scanned, then
\* the rest of the scenario page
SubpageReturns ==
    /\ pc = "running"
    /\ ready # <<>>
    /\ tasks[Head(ready)].pc = "sub_ret"
    /\ LET t == Head(ready)
           name == ScenarioName(tasks[t].url)
           page == tasks[t].page
           s == ScanSubAnchors(scenarios.rec[name],
                               tasks[t].res.page.anchors, 1)
           d == ColonLine(s.attrs, page.text[tasks[t].li], columns)
           p == ParseFrom(d, page, tasks[t].li + 1, columns)
       IN  IF ~tasks[t].res.ok
           THEN /\ tasks' = [tasks EXCEPT ![t].pc = "failed",
                                          ![t].exc = "TimeoutError"]
                /\ UNCHANGED <<scenarios, nfetch>>
           ELSE IF s.err # "None"
           THEN /\ tasks' = [tasks EXCEPT ![t].pc = "failed",
                                          ![t].exc = s.err]
                /\ UNCHANGED <<scenarios, nfetch>>
           ELSE /\ tasks' = AfterParse(tasks, t, p.at)
                /\ scenarios' = [scenarios EXCEPT !.rec[name] = p.attrs]
                /\ nfetch' = IF p.at = 0 THEN nfetch
                             ELSE [nfetch EXCEPT !.sub = @ + 1]
    /\ ready' = Tail(ready)
    /\ UNCHANGED <<config, columns, sem, cache_file, now, pc, err, gi, fails,
                   expired, wrote, asked>>

\* a run_until_complete that comes back from a stopped loop without raising
run_until_complete_Returns(done) == "loop"

\* loop.run_until_complete(future): back in the caller when the future is
\* done; "Event loop stopped before Future completed." when the loop was
\* stopped first
run_until_complete(done) == IF done THEN "loop" ELSE "raised"

\* a wait that returns as soon as one task is over (FIRST_COMPLETED)
WaitOver_FirstCompleted(tk) ==
    \E t \in DOMAIN tk : tk[t].pc \in {"done", "failed"}

\* a fetch_main that schedules the tasks and returns without waiting
WaitOver_NoWait(tk) == TRUE

\* lines 306-308: asyncio.wait(...), return_when = ALL_COMPLETED
WaitOver(tk) == \A t \in DOMAIN tk : tk[t].pc \in {"done", "failed"}

\* line 232: asyncio.wait is over when every task is; the loop of the
\* groups goes on (the finished tasks stay as they are until the next
\* group's replace them)
GroupDone ==
    /\ pc = "running"
    /\ WaitOver(tasks)
    /\ pc' = run_until_complete(TRUE)
    /\ gi' = gi + 1
    /\ UNCHANGED <<config, columns, scenarios, sem, cache_file, now, err,
                   tasks, ready, fails, nfetch, expired, wrote, asked>>

\* line 227: SIGINT runs loop.stop; the loop ends its iteration and line
\* 232 raises RuntimeError, since fetch_main is not done: nothing after
\* line 232 is run, and the tasks stay where they are
Interrupt ==
    /\ pc = "running"
    /\ pc' = run_until_complete(FALSE)
    /\ err' = IF pc' = "raised" THEN "RuntimeError" ELSE err
    /\ gi' = IF pc' = "raised" THEN gi ELSE gi + 1
    /\ UNCHANGED <<config, columns, scenarios, sem, cache_file, now, tasks,
                   ready, fails, nfetch, expired, wrote, asked>>

\* lines 233-234: after the last group the cache is written
WriteCache ==
    /\ pc = "loop"
    /\ gi > Len(groups)
    /\ cache_file' = write_cache(scenarios, columns, now)
    /\ wrote' = TRUE
    /\ saved' = [scenarios |-> scenarios, columns |-> columns]
    /\ pc' = "done"
    /\ UNCHANGED <<config, columns, scenarios, now, err, harvest, expired,
                   query, result>>

Next ==
    \/ LoadStart
    \/ Tick
    \/ ReadCache
    \/ GetScenariosFails
    \/ FetchMain
    \/ StartTask
    \/ ResumeWaiter
    \/ \E t \in DOMAIN tasks : Response(t)
    \/ \E t \in DOMAIN tasks : TransportFailure(t)
    \/ FetchReturns
    \/ SubpageReturns
    \/ GroupDone
    \/ Interrupt
    \/ WriteCache

Spec == Init /\ [][Next]_vars

(* ------------------------------------------------------------------ *)
(* An uninterrupted harvest under a running loop                       *)
(* ------------------------------------------------------------------ *)
\* a site whose first group has more scenarios than the semaphore has slots
GateSite ==
    [Site1 EXCEPT !.landing[<<"ctu13">>] =
        Landing(<<ScenarioURL("CTU-1"), ScenarioURL("CTU-2"),
                  ScenarioURL("CTU-3")>>)]

GateTasks == 1..Len(get_scenarios(GateSite.landing[<<"ctu13">>]))

InitGate ==
    \E gs \in {gs \in GroupArgs : GroupsValid(gs)}, limit \in 1..MaxLimit :
        Constructed(gs, __CACHE_TIMEOUT__, limit, TRUE, NoFile, 0, GateSite)

\* one callback of the event loop: the task at the head of the ready queue
LoopStep == StartTask \/ ResumeWaiter \/ FetchReturns \/ SubpageReturns

NextGate ==
    \/ LoadStart
    \/ FetchMain
    \/ LoopStep
    \/ \E t \in DOMAIN tasks : Response(t)
    \/ \E t \in DOMAIN tasks : TransportFailure(t)
    \/ GroupDone
    \/ WriteCache

\* ENABLED <<LoopStep>>_vars: the loop is running and a callback is ready
\* (each task in the ready queue is at a point where one of the four steps
\* takes it on)
LoopEnabled == pc = "running" /\ ready # <<>>

\* the loop keeps running its ready callbacks (WF_vars(LoopStep), written
\* with LoopEnabled for ENABLED), and every fetch in flight gets its answer
\* unless it failed first
GateFairness ==
    /\ []<>(~LoopEnabled) \/ []<><<LoopStep>>_vars
    /\ \A t \in GateTasks : WF_vars(Response(t))

SpecGate == InitGate /\ [][NextGate]_vars /\ GateFairness

(* ------------------------------------------------------------------ *)
(* The methods called on a loaded object                               *)
(* ------------------------------------------------------------------ *)
\* records per store
MaxRecords == 2

NameTok(i) ==
    CASE i = 1 -> "S1" [] i = 2 -> "S2" [] i = 3 -> "S3" [] i = 4 -> "S4"
      [] OTHER -> "S5"

Base(group, name) ==
    (K_GROUP :> PyStr(group)) @@ (K_URL :> PyStr(ScenarioURL(name)))

Hashes(md5, sha1, sha256) ==
    (<<"MD5">> :> PyStr(<<md5>>)) @@ (<<"SHA1">> :> PyStr(<<sha1>>))
        @@ (<<"SHA256">> :> PyStr(<<sha256>>))

\* the shapes of the dict of a scenario
Shape(v, name) ==
    CASE v = 1 -> Base(<<"ctu13">>, name)
      [] v = 2 -> Base(<<"ctu13">>, name)
                    @@ (<<"PROBABLE", "_", "NAME">> :>
                            PyStr(<<"Neris", "-", "Botnet">>))
                    @@ Hashes("deadbeef", "cafef00d", "f00")
      [] v = 3 -> Base(<<"mixed">>, name)
                    @@ (<<"MD5">> :> PyStr(<<"cafef00d">>))
      [] v = 4 -> Base(<<"mixed">>, name)
                    @@ (<<"PROBABLE", "_", "NAME">> :> PyStr(<<"Zeus">>))
                    @@ Hashes("f00", "f00", "deadbeef")
      [] OTHER -> Base(<<"ctu13">>, name)
                    @@ (K_PAGE :> PyStr(PlainPage))
                    @@ (<<"ZIP">> :> PyStr(<<"sample", ".", "zip">>))
Shapes == 1..5
Flags == {"absent", "true", "false"}

WithSuccess(d, flag) ==
    IF flag = "absent" THEN d ELSE SetItem(d, K_SUCCESS, PyBool(flag = "true"))

\* the store of the scenarios S1..Sn, kind[i] = <<flag, shape>>
BuildStore(kind) ==
    [order |-> [i \in 1..Len(kind) |-> <<NameTok(i)>>],
     rec |-> [n \in {<<NameTok(i)>> : i \in 1..Len(kind)} |->
                LET i == CHOOSE j \in 1..Len(kind) : n = <<NameTok(j)>>
                IN  WithSuccess(Shape(kind[i][2], NameTok(i)), kind[i][1])]]

ShortColumns == << <<"SCENARIO">>, <<"MD5">>, <<"PCAP">> >>

\* an object whose store is loaded, and no cache file
Loaded(store, cols) ==
    /\ groups = << <<"ctu13">>, <<"mixed">> >>
    /\ columns = cols
    /\ cache_timeout = __CACHE_TIMEOUT__
    /\ semaphore_limit = 1
    /\ ignore_cache = FALSE
    /\ scenarios = store
    /\ sem = [value |-> 1, waiters |-> <<>>]
    /\ cache_file = NoFile
    /\ now = 0
    /\ site = Site1
    /\ pc = "loaded"
    /\ err = "None"
    /\ gi = 0
    /\ tasks = <<>>
    /\ ready = <<>>
    /\ fails = 0
    /\ nfetch = [landing |-> 0, scenario |-> 0, sub |-> 0]
    /\ start = [file |-> NoFile, now |-> 0]
    /\ expired = "unset"
    /\ wrote = FALSE
    /\ query = NoQuery
    /\ result = NoResult
    /\ saved = NotSaved

InitQuery ==
    \E n \in 0..MaxRecords : \E kind \in [1..n -> Flags \X Shapes] :
        Loaded(BuildStore(kind), __COLUMNS__)

QueryGroups ==
    { << <<"ctu13">> >>, << <<"mixed">> >>, << <<"ctu13">>, <<"mixed">> >> }
NameArgs == {PyNone, PyStr(<<"neris">>), PyStr(<<"Botnet">>), PyStr(<<"zeus", "-">>)}
HashArgs == {PyNone, PyStr(<<"deadbeef">>), PyStr(<<"cafef00d">>),
             PyStr(<<"DEADBEEF">>)}

\* a call of get_metadata
GetMetadata ==
    /\ pc = "loaded"
    /\ \E gs \in QueryGroups, name_includes \in NameArgs, has_hash \in HashArgs :
        /\ query' = [groups |-> gs, name_includes |-> name_includes,
                     has_hash |-> has_hash]
        /\ result' = get_metadata(scenarios, columns, gs, name_includes,
                                  has_hash)
    /\ pc' = "queried"
    /\ UNCHANGED <<config, columns, scenarios, cache_file, now, err, harvest,
                   expired, wrote, saved>>

SpecQuery == InitQuery /\ [][GetMetadata]_vars

InitCache ==
    \E n \in 0..MaxRecords : \E kind \in [1..n -> Flags \X Shapes] :
        \E cols \in {__COLUMNS__, ShortColumns} :
            Loaded(BuildStore(kind), cols)

\* a call of write_cache
SaveCall ==
    /\ pc = "loaded"
    /\ cache_file' = write_cache(scenarios, columns, now)
    /\ wrote' = TRUE
    /\ saved' = [scenarios |-> scenarios, columns |-> columns]
    /\ pc' = "written"
    /\ UNCHANGED <<config, columns, scenarios, now, err, harvest, expired,
                   query, result>>

\* the next session: __init__ with the default arguments
Reopen ==
    /\ pc = "written"
    /\ scenarios' = EmptyStore
    /\ columns' = __COLUMNS__
    /\ pc' = "reopened"
    /\ UNCHANGED <<config, cache_file, now, err, harvest, expired, wrote,
                   asked>>

\* a call of read_cache
LoadCall ==
    /\ pc \in {"written", "reopened"}
    /\ LET r == read_cache(scenarios, columns, cache_file, now) IN
       /\ scenarios' = r.scenarios
       /\ columns' = r.columns
       /\ cache_file' = r.file
       /\ err' = r.err
       /\ pc' = IF r.err # "None" THEN "raised"
                ELSE IF r.ret THEN "read" ELSE "unread"
    /\ UNCHANGED <<config, now, harvest, expired, wrote, asked>>

\* tokens per line of a page
MaxLineLen == 5

\* the lines of a page, up to MaxLineLen tokens
LineTokens == {"MD5", ":", " ", "ab"}
Lines == UNION {[1..n -> LineTokens] : n \in 0..MaxLineLen}

\* a column schema with a two-word label in it
ParseColumns == << <<"SCENARIO">>, <<"MD5">>, <<"AB", "_", "MD5">> >>

\* the record of a scenario whose page was fetched
FetchedRecord == WithSuccess(Base(<<"ctu13">>, "S1"), "true")

InitParse == Loaded(EmptyStore, ParseColumns)

\* lines 265-275 on one line of the page
ParseLine ==
    /\ pc = "loaded"
    /\ \E line \in Lines :
        /\ query' = [line |-> line]
        /\ result' = ColonLine(FetchedRecord, line, columns)
    /\ pc' = "parsed"
    /\ UNCHANGED <<config, columns, scenarios, cache_file, now, err, harvest,
                   expired, wrote, saved>>

SpecParse == InitParse /\ [][ParseLine]_vars

NextCache == SaveCall \/ Tick \/ Reopen \/ LoadCall

SpecCache == InitCache /\ [][NextCache]_vars

(* ------------------------------------------------------------------ *)
(* Properties                                                          *)
(* ------------------------------------------------------------------ *)
\* fetches whose answer is awaited
InFlight == {t \in DOMAIN tasks : tasks[t].pc \in {"fetch", "subfetch"}}

StartAge == start.now - start.file.mtime

ValidSnapshot(file) ==
    /\ file.exists
    /\ file.content = JsonText(JsonDump(SnapshotStore, __COLUMNS__))

\* non-empty content that json.load rejects or that lacks a key
Corrupt(file) ==
    /\ file.exists
    /\ Len(file.content) > 0
    /\ \/ file.content[1].kind # "json"
       \/ <<"scenarios">> \notin DOMAIN file.content[1].doc[2].members
       \/ <<"columns">> \notin DOMAIN file.content[1].doc[2].members

NoFetch == nfetch = [landing |-> 0, scenario |-> 0, sub |-> 0]

\* C1: in every state of a harvest the fetches in flight, scenario pages and
\* netflow subpages together, are at most semaphore_limit.
C1_InFlightAtMostLimit == Cardinality(InFlight) <= semaphore_limit

\* C2: a session (not told to ignore the cache) that starts with a sound
\* cache file younger than the configured timeout loads the store from that
\* file and fetches nothing.
C2_YoungCacheLoadedNoFetch ==
    (~ignore_cache /\ ValidSnapshot(start.file) /\ StartAge < cache_timeout)
        => /\ NoFetch
           /\ expired # "True"
           /\ pc = "done" => (scenarios = SnapshotStore /\ ~wrote)

\* C3: a session that starts without a cache file, or with one older than
\* the timeout given at construction, has cache_expired report true and ends
\* with a harvest and write_cache.
C3_StaleCacheHarvested ==
    (~start.file.exists \/ StartAge > cache_timeout)
        => /\ expired # "False"
           /\ pc # "read_cache"
           /\ pc = "done" => wrote

\* C4: a cache file of size 0, whatever its age, is deleted by cache_expired,
\* which reports true, and the session goes on to a harvest.
C4_EmptyCacheExpired ==
    (start.file.exists /\ Len(start.file.content) = 0 /\ expired # "unset")
        => /\ expired = "True"
           /\ ~wrote => ~cache_file.exists
           /\ pc = "done" => wrote

\* C5: a cache file that is not expired and whose content is unparsable or
\* lacks 'scenarios' or 'columns' never makes load_ctu_metadata raise: a fresh
\* harvest is made instead.
C5_CorruptCacheRecovered ==
    (Corrupt(start.file) /\ expired = "False")
        => /\ err \notin {"JSONDecodeError", "KeyError", "TypeError",
                          "FileNotFoundError"}
           /\ pc = "done" => wrote

\* C6: read_cache right after write_cache gives back the scenario names, the
\* fields of every scenario and the column schema that were written.
C6_RoundTrip ==
    pc \in {"read", "unread", "raised"}
        => /\ pc = "read"
           /\ DOMAIN scenarios.rec = DOMAIN saved.scenarios.rec
           /\ \A n \in DOMAIN saved.scenarios.rec :
                  scenarios.rec[n] = saved.scenarios.rec[n]
           /\ columns = saved.columns

C6_Witness ==
    /\ pc = "read"
    /\ columns = ShortColumns
    /\ now > 0
    /\ \E n \in DOMAIN scenarios.rec :
           /\ K_PAGE \in DOMAIN scenarios.rec[n]
           /\ K_SUCCESS \in DOMAIN scenarios.rec[n]
           /\ scenarios.rec[n][K_SUCCESS] = PyBool(FALSE)
    /\ \E n \in DOMAIN scenarios.rec : K_SUCCESS \notin DOMAIN scenarios.rec[n]

Unsuccessful(n) ==
    /\ K_SUCCESS \in DOMAIN scenarios.rec[n]
    /\ scenarios.rec[n][K_SUCCESS] = PyBool(FALSE)

\* C7: whatever the store, groups, name_includes and has_hash, no row of
\* get_metadata is the row of a scenario whose _SUCCESS is false.
C7_NoRowForUnsuccessful ==
    pc = "queried"
        => \A i \in 1..Len(result.data) :
               \A n \in DOMAIN scenarios.rec :
                   Unsuccessful(n) => result.data[i][1] # PyStr(n)

C7_Witness ==
    /\ pc = "queried"
    /\ result.err = "None"
    /\ Len(result.data) = 1
    /\ query.name_includes = PyNone
    /\ query.has_hash = PyNone
    /\ \E n \in DOMAIN scenarios.rec :
           /\ Unsuccessful(n)
           /\ InList(scenarios.rec[n][K_GROUP][2], query.groups)

\* the scenario fetch of task t failed
ScenarioFetchFailed(t) == tasks[t].pc = "failed" /\ tasks[t].li = 0

\* C8: when the fetch of a scenario page fails, the scenario's record has
\* _SUCCESS false and get_metadata gives no row for it.
C8_FailedFetchInvisible ==
    \A t \in DOMAIN tasks :
        ScenarioFetchFailed(t)
            => LET n == ScenarioName(tasks[t].url)
                   rows == get_metadata(scenarios, columns, groups, PyNone,
                                        PyNone).data
               IN  /\ Unsuccessful(n)
                   /\ \A i \in 1..Len(rows) : rows[i][1] # PyStr(n)

\* task t has its scenario page
Fetched(t) ==
    \/ tasks[t].pc \in {"subfetch", "sub_ret", "done"}
    \/ tasks[t].pc = "failed" /\ tasks[t].li # 0

\* C9: a scenario whose page is empty or contains "Not Found" has _SUCCESS
\* false, no extracted field, and no subpage fetch.
C9_NotFoundNoFields ==
    \A t \in DOMAIN tasks :
        (Fetched(t) /\ ~PageSuccess(tasks[t].page))
            => LET n == ScenarioName(tasks[t].url) IN
               /\ Unsuccessful(n)
               /\ DOMAIN scenarios.rec[n]
                      \subseteq {K_GROUP, K_URL, K_PAGE, K_SUCCESS}
               /\ tasks[t].li = 0

\* C10: in a harvest of several groups, a landing page that cannot be
\* fetched or that lists no scenario does not abort the harvest.
C10_GroupFailureNotFatal ==
    Len(groups) > 1
        => ~(pc = "raised" /\ err \in {"ConnectionError", "ValueError"})

\* the cache file as the test of line 223 left it, before any harvest
FileAfterTest == cache_expired(start.file, start.now, __CACHE_TIMEOUT__).file

\* C11: write_cache happens, and load_ctu_metadata returns, only when every
\* task launched for the groups harvested so far is over (completed or
\* failed): none is new, queued on the semaphore or suspended at a fetch.
C11_AllTasksOverBeforeWrite ==
    (pc \in {"loop", "done"} \/ wrote)
        => \A t \in DOMAIN tasks : tasks[t].pc \in {"done", "failed"}

C11_Witness ==
    /\ wrote
    /\ pc = "done"
    /\ Len(groups) = 2
    /\ nfetch.scenario = 3
    /\ nfetch.sub = 2
    /\ tasks # <<>>

\* C12: once the loop was stopped with a scenario task unfinished, the
\* session has not written the cache and never will: the cache file is as
\* the expiry test before the harvest left it.
C12_InterruptedNotCached ==
    (pc # "running"
       /\ \E t \in DOMAIN tasks : tasks[t].pc \notin {"done", "failed"})
        => /\ ~wrote
           /\ pc = "raised"
           /\ err = "RuntimeError"
           /\ cache_file = FileAfterTest

C12_Witness ==
    /\ pc = "raised"
    /\ err = "RuntimeError"
    /\ ValidSnapshot(cache_file)
    /\ \E t \in DOMAIN tasks : tasks[t].pc = "subfetch"
    /\ \E t \in DOMAIN tasks : tasks[t].pc = "done"

\* task t is in the semaphore's queue, its future not yet set
Queued(t) == t \in DOMAIN tasks /\ tasks[t].pc = "sem_wait"

\* task t is past acquire(): it had a slot
Admitted(t) ==
    t \in DOMAIN tasks /\ tasks[t].pc \notin {"new", "sem_wait", "woken"}

\* task t is between acquire() and release()
HoldsSlot(t) == t \in DOMAIN tasks /\ tasks[t].pc \in {"fetch", "fetch_ret"}

\* no task that joined the queue later is admitted before one that joined
\* it earlier
AdmittedInOrder ==
    \A t, u \in DOMAIN tasks :
        (tasks[u].turn > 0 /\ tasks[t].turn > tasks[u].turn /\ Admitted(t))
            => Admitted(u)

\* C13 as stated, its third part: in no state is a task queued on the
\* semaphore while no task holds a slot.
C13_NeverQueuedWithoutHolder ==
    (\E t \in DOMAIN tasks : Queued(t))
        => \E u \in DOMAIN tasks : HoldsSlot(u)

\* C13 as amended: under a loop that keeps running and fetches that all
\* return or fail, every queued task is admitted in the end, tasks are
\* admitted in the order they joined the queue, and in no state is a task
\* queued while no task holds a slot and no queued task has been woken by
\* release() to take the slot just given back.
C13_GateFairNoDeadlock ==
    /\ [](AdmittedInOrder)
    /\ []((\E t \in DOMAIN tasks : Queued(t))
            => \E u \in DOMAIN tasks :
                   HoldsSlot(u) \/ tasks[u].pc = "woken")
    /\ \A t \in GateTasks : Queued(t) ~> Admitted(t)

C13_Witness ==
    /\ semaphore_limit = 1
    /\ \E t, u \in DOMAIN tasks :
           /\ tasks[t].turn = 2
           /\ tasks[u].turn = 1
           /\ tasks[t].pc = "fetch"
           /\ tasks[u].pc = "done"

\* slots of the semaphore that are taken
SlotsTaken == semaphore_limit - sem.value

\* C14: a task that awaits its netflow subpage holds a slot, as a task that
\* awaits its scenario page does: the fetches in flight are never more than
\* the slots taken.
C14_FetchesCoveredBySlots == Cardinality(InFlight) <= SlotsTaken

\* task t has begun and is not over
Underway(t) ==
    tasks[t].pc \in {"sem_wait", "woken", "fetch", "fetch_ret", "subfetch",
                     "sub_ret"}

\* C15: while a task is suspended (queued on the semaphore or at a fetch)
\* its scenario's record is not in the store; it appears once the task has
\* finished populating it.
C15_RecordHiddenWhileTaskRuns ==
    \A t \in DOMAIN tasks :
        Underway(t) => ScenarioName(tasks[t].url) \notin DOMAIN scenarios.rec

\* the record of scenario n has _SUCCESS true
Successful(n) ==
    /\ K_SUCCESS \in DOMAIN scenarios.rec[n]
    /\ scenarios.rec[n][K_SUCCESS] = PyBool(TRUE)

\* the record of scenario n is of one of the groups asked for
InGroups(n, gs) ==
    /\ K_GROUP \in DOMAIN scenarios.rec[n]
    /\ \E i \in 1..Len(gs) : scenarios.rec[n][K_GROUP] = PyStr(gs[i])

\* the rows returned have one for scenario n
InRows(n) == \E i \in 1..Len(result.data) : result.data[i][1] = PyStr(n)

\* one of the hash fields the record has is h
HashMatches(n, h) ==
    \E k \in {<<"MD5">>, <<"SHA1">>, <<"SHA256">>} :
        k \in DOMAIN scenarios.rec[n] /\ scenarios.rec[n][k] = h

\* C16: a get_metadata call with has_hash = h raises nothing, and returns a
\* successful record of a requested group iff one of the MD5, SHA1, SHA256
\* fields it has equals h; records lacking some or all of them included.
C16_HashFilterExact ==
    (pc = "queried" /\ query.has_hash # PyNone /\ query.name_includes = PyNone)
        => /\ result.err = "None"
           /\ \A n \in DOMAIN scenarios.rec :
                  (Successful(n) /\ InGroups(n, query.groups))
                      => (InRows(n) <=> HashMatches(n, query.has_hash))

\* needle occurs in hay, letter case apart
ContainsFold(hay, needle) ==
    \E i \in 0..(Len(hay) - Len(needle)) :
        \A j \in 1..Len(needle) : LowerTok(hay[i + j]) = LowerTok(needle[j])

\* C17: a get_metadata call with name_includes = s returns a successful
\* record of a requested group iff the record has a PROBABLE_NAME that
\* contains s, letter case apart; a record without PROBABLE_NAME is skipped.
C17_NameFilterFoldsCase ==
    (pc = "queried" /\ query.name_includes # PyNone /\ query.has_hash = PyNone)
        => /\ result.err = "None"
           /\ \A n \in DOMAIN scenarios.rec :
                  (Successful(n) /\ InGroups(n, query.groups))
                      => (InRows(n) <=>
                            /\ <<"PROBABLE", "_", "NAME">>
                                   \in DOMAIN scenarios.rec[n]
                            /\ ContainsFold(
                                   scenarios.rec[n][<<"PROBABLE", "_", "NAME">>][2],
                                   query.name_includes[2]))

C17_Witness ==
    /\ pc = "queried"
    /\ query.name_includes = PyStr(<<"neris">>)
    /\ query.has_hash = PyNone
    /\ Len(result.data) = 1
    /\ \E n \in DOMAIN scenarios.rec :
           /\ Successful(n)
           /\ InGroups(n, query.groups)
           /\ <<"PROBABLE", "_", "NAME">> \notin DOMAIN scenarios.rec[n]

\* C18: an object asked for a group that is not one of __GROUPS__ is never
\* constructed: RuntimeError is raised, and nothing is fetched, no cache file
\* is read, deleted or written, and the store stays empty.
C18_UnknownGroupRejected ==
    (\E i \in 1..Len(groups) : ~InList(groups[i], __GROUPS__))
        => /\ pc = "raised"
           /\ err = "RuntimeError"
           /\ NoFetch
           /\ expired = "unset"
           /\ cache_file = start.file
           /\ ~wrote
           /\ scenarios = EmptyStore

C18_Witness ==
    /\ pc = "raised"
    /\ groups = << <<"ctu13">>, <<"bogus">> >>
    /\ cache_file.exists
    /\ Len(cache_file.content) = 0
    /\ now - cache_file.mtime > __CACHE_TIMEOUT__

\* the first colon of a line that has one
FirstColon(line) ==
    CHOOSE i \in 1..Len(line) :
        line[i] = ":" /\ \A j \in 1..(i - 1) : line[j] # ":"

\* C19: a line with a colon in it, other than ":", is split at its first
\* colon; the label before it, in upper case and with "_" for each space,
\* names the field that is set to the stripped value after it when the label
\* is a column; any other line leaves the record as it was.
C19_SplitAtFirstColon ==
    pc = "parsed"
        => LET line == query.line IN
           IF (\E i \in 1..Len(line) : line[i] = ":") /\ line # <<":">>
           THEN LET at == FirstColon(line)
                    label == SubSeq(line, 1, at - 1)
                    value == SubSeq(line, at + 1, Len(line))
                    k == [j \in 1..Len(label) |->
                             IF label[j] = " " THEN "_" ELSE UpperTok(label[j])]
                IN  IF \E c \in 1..Len(columns) : columns[c] = k
                    THEN /\ DOMAIN result = DOMAIN FetchedRecord \cup {k}
                         /\ result[k] = PyStr(Strip(value))
                         /\ \A x \in DOMAIN FetchedRecord \ {k} :
                                result[x] = FetchedRecord[x]
                    ELSE result = FetchedRecord
           ELSE result = FetchedRecord

\* C20: no line and no anchor of a scenario page or of its netflow subpage
\* ends a task: a task fails only when one of its fetches fails.
C20_ParseNeverAborts ==
    \A t \in DOMAIN tasks :
        tasks[t].pc = "failed" => tasks[t].exc = "TimeoutError"

\* the document in the cache file, and the store and the columns it holds
Persisted == cache_file.content[1].doc
PersistedStore == DecodeStore(Persisted[2].members[<<"scenarios">>])
PersistedColumns == DecodeList(Persisted[2].members[<<"columns">>])

\* C21: the file write_cache leaves holds the column schema and, for every
\* scenario of the store, its record without the raw page (_PAGE): nothing
\* more and nothing less.
C21_SnapshotWithoutPage ==
    (wrote /\ pc = "done")
        => /\ PersistedColumns = columns
           /\ DOMAIN PersistedStore.rec = DOMAIN scenarios.rec
           /\ \A n \in DOMAIN scenarios.rec :
                  /\ DOMAIN PersistedStore.rec[n]
                         = (DOMAIN scenarios.rec[n]) \ {K_PAGE}
                  /\ \A k \in (DOMAIN scenarios.rec[n]) \ {K_PAGE} :
                         PersistedStore.rec[n][k] = scenarios.rec[n][k]

\* the record of scenario n passes every filter of the query
Survives(n) ==
    /\ ~(K_SUCCESS \in DOMAIN scenarios.rec[n]
           /\ scenarios.rec[n][K_SUCCESS] = PyBool(FALSE))
    /\ InGroups(n, query.groups)
    /\ query.name_includes # PyNone
           => /\ <<"PROBABLE", "_", "NAME">> \in DOMAIN scenarios.rec[n]
              /\ ContainsFold(scenarios.rec[n][<<"PROBABLE", "_", "NAME">>][2],
                              query.name_includes[2])
    /\ query.has_hash # PyNone => HashMatches(n, query.has_hash)

\* row is the projection of the record of scenario n on the columns
RowOf(row, n) ==
    /\ DOMAIN row = 1..Len(columns)
    /\ \A i \in 1..Len(columns) :
           IF columns[i] = <<"SCENARIO">> THEN row[i] = PyStr(n)
           ELSE IF columns[i] = <<"SCENARIO", "_", "URL">>
                THEN row[i] = scenarios.rec[n][K_URL]
           ELSE IF columns[i] \in DOMAIN scenarios.rec[n]
                THEN row[i] = scenarios.rec[n][columns[i]]
           ELSE row[i] = PyNone /\ row[i] # PyStr(<<>>)

\* C22: the rows a get_metadata call returns are, in the store's insertion
\* order, one for every record that passes the filters and none for any
\* other record (so none for a record of a group not asked for); a row has
\* one entry per column of the schema, in schema order, and the entry of a
\* field the record lacks is None, never the empty string.
C22_RowsProjectSurvivorsInOrder ==
    (pc = "queried" /\ result.err = "None")
        => LET kept == SelectSeq(scenarios.order, LAMBDA n : Survives(n))
           IN  /\ Len(result.data) = Len(kept)
               /\ \A i \in 1..Len(kept) : RowOf(result.data[i], kept[i])

C22_Witness ==
    /\ pc = "queried"
    /\ result.err = "None"
    /\ Len(scenarios.order) = 2
    /\ ~InGroups(scenarios.order[1], query.groups)
    /\ Len(result.data) = 1
    /\ result.data[1][1] = PyStr(scenarios.order[2])
    /\ \E j \in 1..Len(columns) : result.data[1][j] = PyNone

\* the tasks between acquire() and release()
SlotHolders == {t \in DOMAIN tasks : HoldsSlot(t)}

\* C23: the slots taken are one for each task that awaits its scenario page
\* or has its response and has not resumed, and none for any other task: a
\* task never has two, has none before or after that fetch, and gives its
\* slot back when the fetch fails as when it returns; so when every task of
\* a group is over, all the slots are free.
C23_OneSlotForThePageFetchOnly ==
    /\ sem.value \in 0..semaphore_limit
    /\ SlotsTaken = Cardinality(SlotHolders)
    /\ (\A t \in DOMAIN tasks : tasks[t].pc \in {"done", "failed"})
           => sem.value = semaphore_limit

C23_Witness ==
    /\ pc = "running"
    /\ semaphore_limit = 1
    /\ sem.value = 1
    /\ \E t, u \in DOMAIN tasks :
           /\ ScenarioFetchFailed(t)
           /\ tasks[t].turn = 0
           /\ tasks[u].turn = 1
           /\ tasks[u].pc = "done"

\* the group whose landing page listed the scenarios of the tasks
TaskGroup == groups[gi]

\* C24: when a task is over with its page parsed, the scenario's record has
\* the group under whose landing page it was discovered and the URL it was
\* discovered at, whatever the page says; a query for that group returns
\* the row of the scenario, under the name taken from the URL, if the page
\* was a success.
C24_IdentityFromDiscovery ==
    \A t \in DOMAIN tasks :
        (pc = "running" /\ tasks[t].pc = "done")
            => LET n == ScenarioName(tasks[t].url)
                   rows == get_metadata(scenarios, columns, <<TaskGroup>>,
                                        PyNone, PyNone).data
               IN  /\ scenarios.rec[n][K_GROUP] = PyStr(TaskGroup)
                   /\ scenarios.rec[n][K_URL] = PyStr(tasks[t].url)
                   /\ Successful(n)
                          => \E i \in 1..Len(rows) : rows[i][1] = PyStr(n)

\* the scenario URLs the landing page of the i-th group asked for lists
ListedUnder(i) == get_scenarios(site.landing[groups[i]])

\* task t has not finished
Unfinished(t) == tasks[t].pc \notin {"done", "failed"}

\* C25: the landing page of a group is fetched only when every scenario
\* task of the groups before it is over, and the landing pages are fetched
\* in the order the groups were asked for; so every task that is not over
\* is a task of the one group being harvested.
C25_GroupsOneAfterAnother ==
    /\ [][nfetch'.landing # nfetch.landing
            => /\ \A t \in DOMAIN tasks : ~Unfinished(t)
               /\ nfetch.landing = gi - 1
               /\ nfetch'.landing = gi]_vars
    /\ [](\A t \in DOMAIN tasks :
              Unfinished(t)
                  => /\ pc \in {"running", "raised"}
                     /\ InList(tasks[t].url, ListedUnder(gi)))

C25_Witness ==
    /\ pc = "running"
    /\ gi = 2
    /\ nfetch.landing = 2
    /\ Cardinality(DOMAIN scenarios.rec) = 3
    /\ \E t \in DOMAIN tasks :
           /\ tasks[t].pc = "fetch"
           /\ ~InList(tasks[t].url, ListedUnder(1))

====
